---- MODULE Spec2Model ----
(***************************************************************************)
(* Model of examples/chatgpt-integration/python-webhook-handler.py: the    *)
(* Flask webhook handler (handle_webhook), the GPT function-calling pass    *)
(* (process_email_with_gpt) and the simulated MCP tool dispatcher           *)
(* (execute_mcp_tool).                                                      *)
(*                                                                          *)
(* Each webhook delivery is one request thread.  A thread advances at the   *)
(* points where the Python code blocks or iterates: the first engine call,  *)
(* each iteration of the tool loop, the second engine call.  Everything     *)
(* the handler does between two such points is one action.                  *)
(*                                                                          *)
(* The reasoning engine (openai.ChatCompletion.create) is an external       *)
(* collaborator: it either raises or returns an assistant message with a    *)
(* content and a list of tool calls, chosen nondeterministically.           *)
(***************************************************************************)
EXTENDS Integers, Sequences, FiniteSets, TLC

\* ---------------------------------------------------------------- bounds

\* Largest number of tool calls the engine puts in one assistant message.
MaxCalls == 2

\* The deliveries (request threads) of the model.
Deliveries == {1, 2}

\* ------------------------------------------------------- Python values

\* Python's None, as str() and f-strings print it.
PyNone == "None"

\* A key that a dict does not hold.
Absent == "<absent>"

\* A JSON value that is not an object (a list, a string, null).
NotObject == "<not-an-object>"

\* dict.get(key, default) on a value already looked up.
DictGet(value, default) == IF value = Absent THEN default ELSE value

\* ---------------------------------------------------------- constants

\* The literal the X-Client-State header is compared with.
SECRET == "your-secret-state"

\* The declarations of MCP_TOOLS, in order: the function name, the properties
\* of its parameter schema and the required ones.
MCP_TOOLS ==
    << [name |-> "get_email_content", properties |-> {"emailId", "format"},
        required |-> {"emailId"}],
       [name |-> "send_to_api", properties |-> {"data", "endpoint"},
        required |-> {"data"}],
       [name |-> "mark_email_processed", properties |-> {"emailId"},
        required |-> {"emailId"}] >>

\* The function names MCP_TOOLS declares.
DeclaredNames == {MCP_TOOLS[i].name : i \in 1..Len(MCP_TOOLS)}

\* The second engine call passes no tools argument.
NoTools == <<>>

SYSTEM_PROMPT == "You are an intelligent email processor..."

\* The engine calls process_email_with_gpt holds: it has two call sites and
\* no loop around them.
MaxTurns == 2

\* ------------------------------------------------------------- inputs

\* Values of request.headers.get('X-Client-State').
ClientStates == {PyNone, SECRET, "wrong-state"}

JsonBody(emailId, subject, from) ==
    [kind |-> "object", emailId |-> emailId, subject |-> subject, from |-> from]

\* request.json raises: no body, malformed JSON or a wrong content type.
NoJsonBody == [kind |-> "no_json", emailId |-> Absent, subject |-> Absent, from |-> Absent]

\* request.json is valid JSON but no object (null, a list).
NotObjectBody == [kind |-> "not_object", emailId |-> Absent, subject |-> Absent, from |-> Absent]

\* "from" collapses the nested from.emailAddress.address: the address, Absent,
\* or NotObject when one of the nested values has no .get.
Bodies ==
    { NoJsonBody, NotObjectBody,
      JsonBody("123", "Invoice #99", "vendor@x.com"),
      JsonBody(Absent, "Invoice #99", "vendor@x.com"),
      JsonBody("123", Absent, Absent),
      JsonBody("123", "Invoice #99", NotObject) }

Requests == [client_state : ClientStates, body : Bodies]

NoRequest == [client_state |-> PyNone, body |-> NoJsonBody]

\* Texts the engine puts in tool_call.function.arguments.
BadJson == "{\"emailId\": "
ListJson == "[\"123\"]"
EmptyObjectJson == "{}"
FullObjectJson == "{\"emailId\": \"123\", \"format\": \"html\", \"data\": {}}"
ArgumentTexts == {BadJson, ListJson, EmptyObjectJson, FullObjectJson}

\* Function names the engine may ask for: the menu and one that is not on it.
ToolNames == DeclaredNames \cup {"delete_email"}

\* message.content of an engine response.
Contents == {PyNone, "Invoice #99 from vendor@x.com processed."}

CallBodies == [name : ToolNames, arguments : ArgumentTexts]

CallSeqs == UNION {[1..n -> CallBodies] : n \in 0..MaxCalls}

\* What the engine may answer: a content and the calls it asks for.
EngineChoices == [content : Contents, calls : CallSeqs]

\* What the engine may answer to the second call. The code reads the content
\* of that response and nothing else of it, so its calls differ in number
\* only: one call body stands for all.
FinalCallSeqs ==
    {[i \in 1..n |-> [name |-> "send_to_api", arguments |-> FullObjectJson]] :
        n \in 0..MaxCalls}

FinalChoices == [content : Contents, calls : FinalCallSeqs]

\* ------------------------------------------------------ pure functions

\* Mutant of the header check: any header that is present passes.
ValidClientState_present(client_state) == client_state # PyNone

\* The header check of handle_webhook: client_state != 'your-secret-state'
\* rejects.
ValidClientState(client_state) == client_state = SECRET

\* Whether lines 101-104 raise: request.json raises, or a .get is called on a
\* value that is no dict.
ParseRaises(body) == body.kind # "object" \/ body.from = NotObject

\* str(e) of what lines 101-104 raise.
ParseError(body) ==
    IF body.kind = "no_json" THEN "400 Bad Request" ELSE "AttributeError"

\* The locals email_id, subject and sender of handle_webhook.
ParseBody(body) ==
    [email_id |-> DictGet(body.emailId, PyNone),
     subject  |-> DictGet(body.subject, ""),
     sender   |-> DictGet(body.from, "")]

NoEmail == [email_id |-> PyNone, subject |-> "", sender |-> ""]

\* json.loads of an arguments text: it raises on text that is no JSON, and
\* otherwise yields a list or a dict with the keys the text holds.
JsonLoads(text) ==
    CASE text = BadJson ->
           [raised |-> TRUE, kind |-> "none", emailId |-> Absent, format |-> Absent, data |-> Absent]
      [] text = ListJson ->
           [raised |-> FALSE, kind |-> "list", emailId |-> Absent, format |-> Absent, data |-> Absent]
      [] text = EmptyObjectJson ->
           [raised |-> FALSE, kind |-> "dict", emailId |-> Absent, format |-> Absent, data |-> Absent]
      [] OTHER ->
           [raised |-> FALSE, kind |-> "dict", emailId |-> "123", format |-> "html", data |-> "{}"]

\* What execute_mcp_tool does with a name and the parsed arguments: the dict
\* it returns (a sequence of <<key, value>>), or the AttributeError of
\* arguments.get on a value that is no dict.
Returned(value) == [raised |-> FALSE, value |-> value]
Raised == [raised |-> TRUE, value |-> <<>>]

execute_mcp_tool(tool_name, arguments) ==
    CASE tool_name = "get_email_content" ->
           IF arguments.kind # "dict" THEN Raised
           ELSE Returned(<< <<"content", "Example email content...">>,
                            <<"format", DictGet(arguments.format, "text")>> >>)
      [] tool_name = "send_to_api" ->
           Returned(<< <<"status", "200">>,
                       <<"response", "Data processed successfully">> >>)
      [] tool_name = "mark_email_processed" ->
           IF arguments.kind # "dict" THEN Raised
           ELSE Returned(<< <<"success", "True">>,
                            <<"emailId", DictGet(arguments.emailId, PyNone)>> >>)
      [] OTHER ->
           Returned(<< <<"error", "Unknown tool">> >>)

\* json.dumps of one value: None prints as null, True as true.
JsonToken(value) ==
    CASE value = PyNone -> "null"
      [] value = "True" -> "true"
      [] OTHER -> value

\* json.dumps of a dict: its keys and values, in order.
JsonDumps(dict) ==
    [i \in 1..(2 * Len(dict)) |->
        IF i % 2 = 1 THEN dict[(i + 1) \div 2][1]
        ELSE JsonToken(dict[i \div 2][2])]

\* ------------------------------------------------------------ messages

NoId == <<>>

\* tool_call.id of the i-th call of the engine's turn-th response.
CallId(turn, i) == <<turn, i>>

Message(role, content, tool_calls, tool_call_id) ==
    [role |-> role, content |-> content, tool_calls |-> tool_calls,
     tool_call_id |-> tool_call_id]

SystemMessage == Message("system", <<SYSTEM_PROMPT>>, <<>>, NoId)

UserMessage(email) ==
    Message("user",
            <<"New email received:", "ID: ", email.email_id, "From: ", email.sender,
              "Subject: ", email.subject, "Please process this email.">>,
            <<>>, NoId)

\* response.choices[0].message of the turn-th engine call.
AssistantMessage(turn, choice) ==
    Message("assistant", <<choice.content>>,
            [i \in 1..Len(choice.calls) |->
                [id |-> CallId(turn, i), name |-> choice.calls[i].name,
                 arguments |-> choice.calls[i].arguments]],
            NoId)

ToolMessage(tool_call_id, result) ==
    Message("tool", JsonDumps(result), <<>>, tool_call_id)

NoMessage == Message("none", <<>>, <<>>, NoId)
NoToolCall == [id |-> NoId, name |-> "", arguments |-> ""]

\* ------------------------------------------------------------ responses

NoResult == [status |-> Absent, processed_at |-> Absent, email_id |-> Absent, summary |-> Absent]

\* return {"status": "no_action_needed"}
NoActionResult == [NoResult EXCEPT !.status = "no_action_needed"]

\* return {"processed_at": ..., "email_id": ..., "summary": ...}
SummaryResult(email_id, content) ==
    [NoResult EXCEPT !.processed_at = "<utcnow>", !.email_id = email_id, !.summary = content]

\* Mutant of the 200 body: the status beside the result repeats the result's
\* own status where it has one.
ProcessedBody_nested(result) ==
    [error |-> Absent, status |-> DictGet(result.status, "processed"), result |-> result]

ErrorBody(text) == [error |-> text, status |-> Absent, result |-> NoResult]
ProcessedBody(result) == [error |-> Absent, status |-> "processed", result |-> result]

NoResponse == [code |-> 0, body |-> ErrorBody(Absent)]

\* --------------------------------------------------------------- state

VARIABLES
    pc,                 \* where each request thread stands
    request,            \* the request of each delivery: header and body
    email,              \* email_id, subject, sender of handle_webhook
    messages,           \* the conversation of process_email_with_gpt
    assistant_message,  \* response.choices[0].message of the first call
    tool_index,         \* position of the for loop over tool_calls
    tool_call,          \* the loop variable tool_call
    result,             \* the loop's local result
    tool_results,       \* the list tool_results
    response,           \* what handle_webhook returned: status code and body
    engineLog,          \* every ChatCompletion.create call, with its outcome
    toolLog,            \* every execute_mcp_tool call, with its outcome
    mcp_tools           \* the module-level list MCP_TOOLS, shared by all threads

vars == <<pc, request, email, messages, assistant_message, tool_index, tool_call,
          result, tool_results, response, engineLog, toolLog, mcp_tools>>

\* The locals of the tool loop.
loopVars == <<tool_index, tool_call, result, tool_results>>

\* One ChatCompletion.create call: what it was given and how it ended.
EngineCall(msgs, tools, tool_choice) ==
    [messages |-> msgs, tools |-> tools, tool_choice |-> tool_choice,
     status |-> "pending", content |-> Absent, call_ids |-> <<>>]

\* The last entry of a log, rewritten.
Answered(log, message) ==
    [log EXCEPT ![Len(log)] =
        [@ EXCEPT !.status = "returned",
                  !.content = message.content[1],
                  !.call_ids = [i \in 1..Len(message.tool_calls) |-> message.tool_calls[i].id]]]

Failed(log) == [log EXCEPT ![Len(log)] = [@ EXCEPT !.status = "raised"]]

InitWith(active, requests) ==
    /\ request \in [Deliveries -> requests \cup {NoRequest}]
    /\ \A d \in Deliveries : d \notin active => request[d] = NoRequest
    /\ \A d \in active : request[d] \in requests
    /\ pc = [d \in Deliveries |-> IF d \in active THEN "received" ELSE "idle"]
    /\ email = [d \in Deliveries |-> NoEmail]
    /\ messages = [d \in Deliveries |-> <<>>]
    /\ assistant_message = [d \in Deliveries |-> NoMessage]
    /\ tool_index = [d \in Deliveries |-> 0]
    /\ tool_call = [d \in Deliveries |-> NoToolCall]
    /\ result = [d \in Deliveries |-> <<>>]
    /\ tool_results = [d \in Deliveries |-> <<>>]
    /\ response = [d \in Deliveries |-> NoResponse]
    /\ engineLog = [d \in Deliveries |-> <<>>]
    /\ toolLog = [d \in Deliveries |-> <<>>]
    /\ mcp_tools = MCP_TOOLS

\* One delivery arrives; the other never does.
Init == InitWith({1}, Requests)

\* ------------------------------------------------------- handle_webhook

\* return jsonify(body), code
Respond(d, code, body) ==
    /\ pc' = [pc EXCEPT ![d] = "responded"]
    /\ response' = [response EXCEPT ![d] = [code |-> code, body |-> body]]

\* Mutant of the except clause: the error is logged and nothing is returned.
HandleException_silent(d, text) ==
    /\ pc' = [pc EXCEPT ![d] = "responded"]
    /\ UNCHANGED response

\* except Exception as e: return jsonify({"error": str(e)}), 500
HandleException(d, text) == Respond(d, 500, ErrorBody(text))

\* The header differs from the secret: 401, before the body is read.
RejectClientState(d) ==
    /\ pc[d] = "received"
    /\ ~ValidClientState(request[d].client_state)
    /\ Respond(d, 401, ErrorBody("Invalid client state"))
    /\ UNCHANGED <<mcp_tools, request, email, messages, assistant_message, loopVars,
                   engineLog, toolLog>>

\* Reading the body raises.
ParseFault(d) ==
    /\ pc[d] = "received"
    /\ ValidClientState(request[d].client_state)
    /\ ParseRaises(request[d].body)
    /\ HandleException(d, ParseError(request[d].body))
    /\ UNCHANGED <<mcp_tools, request, email, messages, assistant_message, loopVars,
                   engineLog, toolLog>>

\* The body is read, process_email_with_gpt builds the two messages and
\* issues the first engine call, with the tool menu and tool_choice "auto".
AdmitAndCallEngine(d) ==
    /\ pc[d] = "received"
    /\ ValidClientState(request[d].client_state)
    /\ ~ParseRaises(request[d].body)
    /\ LET e == ParseBody(request[d].body)
           msgs == <<SystemMessage, UserMessage(e)>>
       IN /\ email' = [email EXCEPT ![d] = e]
          /\ messages' = [messages EXCEPT ![d] = msgs]
          /\ engineLog' = [engineLog EXCEPT ![d] =
                              Append(@, EngineCall(msgs, mcp_tools, "auto"))]
    /\ pc' = [pc EXCEPT ![d] = "awaiting_first"]
    /\ UNCHANGED <<mcp_tools, request, assistant_message, loopVars, response, toolLog>>

\* ----------------------------------------------- process_email_with_gpt

\* Mutant of the first call's failure: the call is issued once more instead of
\* the exception reaching the handler.
EngineFirstFault_retries(d) ==
    /\ pc[d] = "awaiting_first"
    /\ Len(engineLog[d]) < MaxTurns
    /\ engineLog' = [engineLog EXCEPT ![d] =
                        Append(Failed(@), EngineCall(messages[d], MCP_TOOLS, "auto"))]
    /\ UNCHANGED <<mcp_tools, pc, request, email, messages, assistant_message, loopVars,
                   response, toolLog>>

\* The first engine call raises (an API error, a timeout).
EngineFirstFault(d) ==
    /\ pc[d] = "awaiting_first"
    /\ engineLog' = [engineLog EXCEPT ![d] = Failed(@)]
    /\ HandleException(d, "OpenAIError")
    /\ UNCHANGED <<mcp_tools, request, email, messages, assistant_message, loopVars, toolLog>>

\* The first engine call returns: with no tool calls the function returns
\* {"status": "no_action_needed"}, otherwise the tool loop starts.
EngineFirstReturn(d, choices) ==
    /\ pc[d] = "awaiting_first"
    /\ \E c \in choices :
         LET m == AssistantMessage(1, c)
         IN /\ assistant_message' = [assistant_message EXCEPT ![d] = m]
            /\ engineLog' = [engineLog EXCEPT ![d] = Answered(@, m)]
            /\ IF Len(m.tool_calls) = 0
               THEN /\ Respond(d, 200, ProcessedBody(NoActionResult))
                    /\ UNCHANGED loopVars
               ELSE /\ pc' = [pc EXCEPT ![d] = "tools"]
                    /\ tool_index' = [tool_index EXCEPT ![d] = 1]
                    /\ tool_results' = [tool_results EXCEPT ![d] = <<>>]
                    /\ UNCHANGED <<tool_call, result, response>>
    /\ UNCHANGED <<mcp_tools, request, email, messages, toolLog>>

\* The loop's next tool call.
NextToolCall(d) == assistant_message[d].tool_calls[tool_index[d]]

InToolLoop(d) ==
    /\ pc[d] = "tools"
    /\ tool_index[d] <= Len(assistant_message[d].tool_calls)

\* One iteration: json.loads raises on the arguments text.
ToolArgumentsFault(d) ==
    /\ InToolLoop(d)
    /\ JsonLoads(NextToolCall(d).arguments).raised
    /\ tool_call' = [tool_call EXCEPT ![d] = NextToolCall(d)]
    /\ HandleException(d, "JSONDecodeError")
    /\ UNCHANGED <<mcp_tools, request, email, messages, assistant_message, tool_index, result,
                   tool_results, engineLog, toolLog>>

\* One iteration: execute_mcp_tool raises.
ToolFault(d) ==
    /\ InToolLoop(d)
    /\ LET tc == NextToolCall(d)
           args == JsonLoads(tc.arguments)
       IN /\ ~args.raised
          /\ execute_mcp_tool(tc.name, args).raised
          /\ tool_call' = [tool_call EXCEPT ![d] = tc]
          /\ toolLog' = [toolLog EXCEPT ![d] =
                            Append(@, [id |-> tc.id, name |-> tc.name,
                                       arguments |-> tc.arguments, raised |-> TRUE])]
    /\ HandleException(d, "AttributeError")
    /\ UNCHANGED <<mcp_tools, request, email, messages, assistant_message, tool_index, result,
                   tool_results, engineLog>>

\* One iteration: the tool returns and its output joins tool_results.
ExecuteToolCall(d) ==
    /\ InToolLoop(d)
    /\ LET tc == NextToolCall(d)
           args == JsonLoads(tc.arguments)
           r == execute_mcp_tool(tc.name, args)
       IN /\ ~args.raised
          /\ ~r.raised
          /\ tool_call' = [tool_call EXCEPT ![d] = tc]
          /\ result' = [result EXCEPT ![d] = r.value]
          /\ tool_results' = [tool_results EXCEPT ![d] =
                                 Append(@, [tool_call_id |-> tc.id,
                                            output |-> JsonDumps(r.value)])]
          /\ toolLog' = [toolLog EXCEPT ![d] =
                            Append(@, [id |-> tc.id, name |-> tc.name,
                                       arguments |-> tc.arguments, raised |-> FALSE])]
    /\ tool_index' = [tool_index EXCEPT ![d] = @ + 1]
    /\ UNCHANGED <<mcp_tools, pc, request, email, messages, assistant_message, response, engineLog>>

\* Mutant of the append: the tool message goes in before the assistant
\* message.
AppendedAfterLoop_reversed(d) ==
    <<ToolMessage(tool_call[d].id, result[d]), assistant_message[d]>>

\* Mutant of the append: one tool message for every entry of tool_results.
AppendedAfterLoop_all(d) ==
    <<assistant_message[d]>> \o
        [i \in DOMAIN tool_results[d] |->
            Message("tool", tool_results[d][i].output, <<>>,
                    tool_results[d][i].tool_call_id)]

\* What lines 155-160 append after the loop: the assistant message and one
\* tool message, built from the loop's last tool_call and result.
AppendedAfterLoop(d) ==
    <<assistant_message[d], ToolMessage(tool_call[d].id, result[d])>>

\* Mutant of the second call: messages is one list shared by all threads.
AppendAndCallEngine_shared(d) ==
    /\ pc[d] = "tools"
    /\ tool_index[d] > Len(assistant_message[d].tool_calls)
    /\ LET msgs == messages[d] \o
                       <<assistant_message[d], ToolMessage(tool_call[d].id, result[d])>>
       IN /\ messages' = [e \in Deliveries |-> IF pc[e] = "idle" THEN messages[e] ELSE msgs]
          /\ engineLog' = [engineLog EXCEPT ![d] =
                              Append(@, EngineCall(msgs, NoTools, Absent))]
    /\ pc' = [pc EXCEPT ![d] = "awaiting_final"]
    /\ UNCHANGED <<mcp_tools, request, email, assistant_message, loopVars, response,
                   toolLog>>

\* Mutant of the second call: it is issued as soon as one tool call was
\* executed.
AppendAndCallEngine_early(d) ==
    /\ pc[d] = "tools"
    /\ tool_index[d] > 1
    /\ LET msgs == messages[d] \o
                       <<assistant_message[d], ToolMessage(tool_call[d].id, result[d])>>
       IN /\ messages' = [messages EXCEPT ![d] = msgs]
          /\ engineLog' = [engineLog EXCEPT ![d] =
                              Append(@, EngineCall(msgs, NoTools, Absent))]
    /\ pc' = [pc EXCEPT ![d] = "awaiting_final"]
    /\ UNCHANGED <<mcp_tools, request, email, assistant_message, loopVars, response,
                   toolLog>>

\* The loop is over: the messages are appended and the second engine call is
\* issued, without tools and without tool_choice.
AppendAndCallEngine(d) ==
    /\ pc[d] = "tools"
    /\ tool_index[d] > Len(assistant_message[d].tool_calls)
    /\ LET msgs == messages[d] \o AppendedAfterLoop(d)
       IN /\ messages' = [messages EXCEPT ![d] = msgs]
          /\ engineLog' = [engineLog EXCEPT ![d] =
                              Append(@, EngineCall(msgs, NoTools, Absent))]
    /\ pc' = [pc EXCEPT ![d] = "awaiting_final"]
    /\ UNCHANGED <<mcp_tools, request, email, assistant_message, loopVars, response, toolLog>>

\* The second engine call raises.
EngineFinalFault(d) ==
    /\ pc[d] = "awaiting_final"
    /\ engineLog' = [engineLog EXCEPT ![d] = Failed(@)]
    /\ HandleException(d, "OpenAIError")
    /\ UNCHANGED <<mcp_tools, request, email, messages, assistant_message, loopVars, toolLog>>

\* Mutant of the second call's return: a response that carries tool calls
\* starts the tool loop again.
EngineFinalReturn_loops(d, choices) ==
    /\ pc[d] = "awaiting_final"
    /\ \E c \in choices :
         LET m == AssistantMessage(Len(engineLog[d]), c)
         IN /\ engineLog' = [engineLog EXCEPT ![d] = Answered(@, m)]
            /\ IF Len(m.tool_calls) = 0 \/ Len(engineLog[d]) > MaxTurns
               THEN /\ Respond(d, 200, ProcessedBody(SummaryResult(email[d].email_id, m.content[1])))
                    /\ UNCHANGED <<assistant_message, loopVars>>
               ELSE /\ pc' = [pc EXCEPT ![d] = "tools"]
                    /\ assistant_message' = [assistant_message EXCEPT ![d] = m]
                    /\ tool_index' = [tool_index EXCEPT ![d] = 1]
                    /\ tool_results' = [tool_results EXCEPT ![d] = <<>>]
                    /\ UNCHANGED <<tool_call, result, response>>
    /\ UNCHANGED <<mcp_tools, request, email, messages, toolLog>>

\* The second engine call returns: its content is the summary, whatever else
\* the response carries, and handle_webhook answers 200.
EngineFinalReturn(d, choices) ==
    /\ pc[d] = "awaiting_final"
    /\ \E c \in choices :
         LET m == AssistantMessage(2, c)
         IN /\ engineLog' = [engineLog EXCEPT ![d] = Answered(@, m)]
            /\ Respond(d, 200, ProcessedBody(SummaryResult(email[d].email_id, m.content[1])))
    /\ UNCHANGED <<mcp_tools, request, email, messages, assistant_message, loopVars, toolLog>>

\* -------------------------------------------------------- specification

\* What one request thread may do next, the engine's first answer drawn from
\* choices and its second from finals.
Step(d, choices, finals) ==
    \/ RejectClientState(d)
    \/ ParseFault(d)
    \/ AdmitAndCallEngine(d)
    \/ EngineFirstFault(d)
    \/ EngineFirstReturn(d, choices)
    \/ ToolArgumentsFault(d)
    \/ ToolFault(d)
    \/ ExecuteToolCall(d)
    \/ AppendAndCallEngine(d)
    \/ EngineFinalFault(d)
    \/ EngineFinalReturn(d, finals)

Next == \E d \in Deliveries : Step(d, EngineChoices, FinalChoices)

Spec == Init /\ [][Next]_vars

\* The calls of the fair specification: every function name with complete
\* arguments, and get_email_content with every arguments text. The handler's
\* path depends on a call only through json.loads raising, the tool raising
\* or the tool returning, and each of these is among them.
FairCallBodies ==
    [name : ToolNames, arguments : {FullObjectJson}]
        \cup [name : {"get_email_content"}, arguments : ArgumentTexts]

FairChoices ==
    [content : Contents,
     calls : UNION {[1..n -> FairCallBodies] : n \in 0..MaxCalls}]

FairNext == \E d \in Deliveries : Step(d, FairChoices, FinalChoices)

\* A request thread that can take a step takes it: the interpreter runs it,
\* and an engine call returns or raises (its timeout).
FairSpec == Init /\ [][FairNext]_vars /\ WF_vars(FairNext)

\* The email of the first delivery of the concurrent specification.
FirstRequest ==
    [client_state |-> SECRET, body |-> JsonBody("123", "Invoice #99", "vendor@x.com")]

\* What the second delivery may be: another email, with the secret or with a
\* wrong header, or a request without a readable body.
OtherRequests ==
    { [client_state |-> SECRET, body |-> JsonBody("456", "Support request", "customer@y.com")],
      [client_state |-> "wrong-state", body |-> JsonBody("456", "Support request", "customer@y.com")],
      [client_state |-> SECRET, body |-> NoJsonBody] }

\* The calls of the concurrent specification: a tool that returns, a tool
\* that raises, and arguments json.loads raises on.
ConcCallBodies ==
    { [name |-> "mark_email_processed", arguments |-> FullObjectJson],
      [name |-> "get_email_content", arguments |-> ListJson],
      [name |-> "send_to_api", arguments |-> BadJson] }

ConcChoices ==
    [content : Contents,
     calls : UNION {[1..n -> ConcCallBodies] : n \in 0..MaxCalls}]

\* The second answers of the concurrent specification: without a call or
\* with one.
ConcFinals ==
    {c \in FinalChoices : Len(c.calls) <= 1}

\* Both deliveries arrive, each with its own request.
ConcInit ==
    /\ InitWith(Deliveries, {FirstRequest} \cup OtherRequests)
    /\ request[1] = FirstRequest
    /\ request[2] \in OtherRequests

\* Flask runs each request in its own thread: their steps interleave.
ConcNext == \E d \in Deliveries : Step(d, ConcChoices, ConcFinals)

ConcSpec == ConcInit /\ [][ConcNext]_vars

\* --------------------------------------------------------------- claims

\* The engine calls of a delivery that raised.
EngineRaised(d) ==
    \E i \in DOMAIN engineLog[d] : engineLog[d][i].status = "raised"

\* The engine response that ended the delivery's last engine call.
LastEngineCall(d) == engineLog[d][Len(engineLog[d])]

\* C1: a request whose X-Client-State header is missing or differs from the
\* secret is answered 401 {"error": "Invalid client state"} whatever its body
\* is, and the delivery makes no engine call and executes no tool.
ClientStateRejected ==
    \A d \in Deliveries :
        (pc[d] # "idle" /\ request[d].client_state # SECRET) =>
            /\ engineLog[d] = <<>>
            /\ toolLog[d] = <<>>
            /\ pc[d] \in {"received", "responded"}
            /\ pc[d] = "responded" =>
                  response[d] = [code |-> 401, body |-> ErrorBody("Invalid client state")]

\* C1 witness: a request without the header and without a readable body has
\* been answered 401.
ClientStateRejectedWitness ==
    \E d \in Deliveries :
        /\ request[d].client_state = PyNone
        /\ request[d].body = NoJsonBody
        /\ pc[d] = "responded"
        /\ response[d].code = 401

\* C4: a delivery makes at most MaxTurns engine calls, and once it has
\* entered process_email_with_gpt it ends with a response, 200 or 500.
BoundedTurnsAndTermination ==
    /\ [](\A d \in Deliveries : Len(engineLog[d]) <= MaxTurns)
    /\ \A d \in Deliveries :
          (engineLog[d] # <<>>) ~>
              (pc[d] = "responded" /\ response[d].code \in {200, 500})

\* C4 witness: every response of the engine asked for tools, and the delivery
\* has ended after MaxTurns engine calls.
BoundedTurnsWitness ==
    \E d \in Deliveries :
        /\ pc[d] = "responded"
        /\ Len(engineLog[d]) = MaxTurns
        /\ \A i \in DOMAIN engineLog[d] :
              engineLog[d][i].status = "returned" /\ engineLog[d][i].call_ids # <<>>

\* C10: an engine call that raises ends the delivery with a 500 and an error
\* object, and no engine call and no tool execution follows it.
EngineFaultFails ==
    /\ [](\A d \in Deliveries :
            EngineRaised(d) =>
                /\ pc[d] = "responded"
                /\ response[d].code = 500
                /\ response[d].body.error # Absent
                /\ response[d].body.status = Absent
                /\ LastEngineCall(d).status = "raised")
    /\ [][\A d \in Deliveries :
            EngineRaised(d) =>
                /\ engineLog'[d] = engineLog[d]
                /\ toolLog'[d] = toolLog[d]]_vars

\* C10 witness: the second engine call raised after a tool was executed, and
\* the caller has its 500.
EngineFaultWitness ==
    \E d \in Deliveries :
        /\ Len(engineLog[d]) = 2
        /\ engineLog[d][2].status = "raised"
        /\ toolLog[d] # <<>>
        /\ response[d].code = 500

\* The tool messages of a conversation, in order.
ToolMessages(msgs) == SelectSeq(msgs, LAMBDA m : m.role = "tool")

\* The elements of a sequence.
Range(seq) == {seq[i] : i \in DOMAIN seq}

\* C2: when an engine call after the first is issued, the conversation it is
\* given holds exactly one tool message for each tool call of the preceding
\* assistant turn: as many tool messages as calls, each with the id of one of
\* the calls, no id twice.
OneResultPerRequest ==
    \A d \in Deliveries :
        \A k \in 2..Len(engineLog[d]) :
            LET issued == engineLog[d][k - 1].call_ids
                answers == ToolMessages(engineLog[d][k].messages)
            IN /\ Len(answers) = Len(issued)
               /\ \A i \in DOMAIN answers : answers[i].tool_call_id \in Range(issued)
               /\ \A i, j \in DOMAIN answers :
                     answers[i].tool_call_id = answers[j].tool_call_id => i = j

\* C3: the tool messages of a turn stand in the order of the turn's tool
\* calls: the i-th tool message answers the i-th call.
ResultsInRequestOrder ==
    \A d \in Deliveries :
        \A k \in 2..Len(engineLog[d]) :
            LET issued == engineLog[d][k - 1].call_ids
                answers == ToolMessages(engineLog[d][k].messages)
            IN \A i \in DOMAIN issued :
                  /\ i \in DOMAIN answers
                  /\ answers[i].tool_call_id = issued[i]

\* The status of a 200 response: the result's own status where it has one,
\* the status beside it otherwise.
FinalStatus(body) ==
    IF body.result.status # Absent THEN body.result.status ELSE body.status

\* C5: a delivery ends with a 200 only when the last engine response carries
\* no tool calls; its status is processed when a tool was executed and
\* no_action_needed when none was, and its summary is the content of that
\* last response (a result without summary stands for a content of None).
DoneOnlyWithoutToolCalls ==
    \A d \in Deliveries :
        (pc[d] = "responded" /\ response[d].code = 200) =>
            /\ LastEngineCall(d).call_ids = <<>>
            /\ FinalStatus(response[d].body) =
                  (IF toolLog[d] # <<>> THEN "processed" ELSE "no_action_needed")
            /\ DictGet(response[d].body.result.summary, PyNone) = LastEngineCall(d).content

\* C6: a delivery whose last engine response still asks for tools when the
\* engine calls are used up ends with a 500 that names the exceeded bound,
\* never with a 200.
LoopBoundSurfaced ==
    \A d \in Deliveries :
        ( /\ pc[d] = "responded"
          /\ Len(engineLog[d]) = MaxTurns
          /\ \A i \in DOMAIN engineLog[d] :
                engineLog[d][i].status = "returned" /\ engineLog[d][i].call_ids # <<>> )
        => /\ response[d].code = 500
           /\ response[d].body.error = "LoopBoundExceeded"

\* json.dumps of what execute_mcp_tool returns for a name it does not know.
UnknownToolOutput == JsonDumps(<< <<"error", "Unknown tool">> >>)

\* C7: a call of a name MCP_TOOLS does not declare returns the error payload
\* under the call's id, the payload is in the conversation the next engine
\* call is given, and the delivery goes on to that call.
UnknownToolReported ==
    \A d \in Deliveries :
        \A i \in DOMAIN toolLog[d] :
            toolLog[d][i].name \notin DeclaredNames =>
                /\ ~toolLog[d][i].raised
                /\ \E j \in DOMAIN tool_results[d] :
                      tool_results[d][j] =
                          [tool_call_id |-> toolLog[d][i].id, output |-> UnknownToolOutput]
                /\ Len(engineLog[d]) >= 2 =>
                      \E j \in DOMAIN engineLog[d][2].messages :
                          /\ engineLog[d][2].messages[j].role = "tool"
                          /\ engineLog[d][2].messages[j].tool_call_id = toolLog[d][i].id
                          /\ engineLog[d][2].messages[j].content = UnknownToolOutput
                /\ (pc[d] = "responded"
                        /\ tool_index[d] > Len(assistant_message[d].tool_calls))
                      => Len(engineLog[d]) >= 2

\* C8: a tool execution that raises leaves an error payload under the call's
\* id in tool_results, the loop goes on, and the caller gets no 500 for it.
ToolFaultsRecovered ==
    \A d \in Deliveries :
        \A i \in DOMAIN toolLog[d] :
            toolLog[d][i].raised =>
                /\ \E j \in DOMAIN tool_results[d] :
                      tool_results[d][j].tool_call_id = toolLog[d][i].id
                /\ response[d].code = 500 => EngineRaised(d)

\* The keys of a parsed arguments dict.
ArgumentKeys(arguments) ==
    {k \in {"emailId", "format", "data"} : arguments[k] # Absent}

\* Whether an arguments text satisfies the parameter schema MCP_TOOLS
\* declares for a function name: a JSON object holding the required keys.
SatisfiesSchema(name, text) ==
    LET arguments == JsonLoads(text)
    IN /\ ~arguments.raised
       /\ arguments.kind = "dict"
       /\ \A i \in 1..Len(MCP_TOOLS) :
             MCP_TOOLS[i].name = name => MCP_TOOLS[i].required \subseteq ArgumentKeys(arguments)

\* C9: a call whose arguments do not satisfy the declared schema never
\* reaches the tool implementation, and raises nothing: every execution
\* logged for a declared tool has valid arguments, and no response reports a
\* JSON decoding error.
ArgumentsValidated ==
    \A d \in Deliveries :
        /\ \A i \in DOMAIN toolLog[d] :
              toolLog[d][i].name \in DeclaredNames =>
                  SatisfiesSchema(toolLog[d][i].name, toolLog[d][i].arguments)
        /\ response[d].body.error # "JSONDecodeError"

WellShaped(msgs) ==
    /\ Len(msgs) >= 2
    /\ msgs[1] = SystemMessage
    /\ msgs[2].role = "user"
    /\ \A i \in 3..Len(msgs) : msgs[i].role \in {"assistant", "tool"}
    /\ Len(msgs) >= 3 => msgs[3].role = "assistant"
    /\ \A i \in 3..Len(msgs) :
          msgs[i].role = "assistant" => (i < Len(msgs) /\ msgs[i + 1].role = "tool")
    /\ \A i \in 3..Len(msgs) :
          msgs[i].role = "tool" =>
              \E j \in 3..(i - 1) :
                  /\ msgs[j].role = "assistant"
                  /\ \A k \in (j + 1)..i : msgs[k].role = "tool"
                  /\ \E n \in DOMAIN msgs[j].tool_calls :
                        msgs[j].tool_calls[n].id = msgs[i].tool_call_id

\* Whether one sequence starts with the other.
IsPrefix(short, long) ==
    /\ Len(short) <= Len(long)
    /\ \A i \in DOMAIN short : long[i] = short[i]

\* C12: once built, the conversation reads system, user, then assistant
\* message and tool message(s) answering it; its first message is the system
\* message, and a step only appends to it.
ConversationShape ==
    /\ [](\A d \in Deliveries : messages[d] # <<>> => WellShaped(messages[d]))
    /\ [][\A d \in Deliveries : IsPrefix(messages[d], messages'[d])]_vars

\* C12 witness: a conversation of four messages whose assistant message asked
\* for two tools.
ConversationShapeWitness ==
    \E d \in Deliveries :
        /\ Len(messages[d]) = 4
        /\ Len(messages[d][3].tool_calls) = 2

\* C13: every engine call is given the three declarations of MCP_TOOLS, in
\* order, and tool_choice "auto".
FullMenuEveryCall ==
    \A d \in Deliveries :
        \A i \in DOMAIN engineLog[d] :
            /\ engineLog[d][i].tools = MCP_TOOLS
            /\ engineLog[d][i].tool_choice = "auto"

\* The ids of the tool calls the engine issued to a delivery.
IssuedIds(d) ==
    UNION {Range(engineLog[d][i].call_ids) : i \in DOMAIN engineLog[d]}

\* C14: no tool call is executed twice, every execution is of a call the
\* engine issued, and in a run that ends with a 200 every call the engine
\* issued was executed exactly once.
EveryIssuedCallExecutedOnce ==
    \A d \in Deliveries :
        /\ \A i, j \in DOMAIN toolLog[d] :
              toolLog[d][i].id = toolLog[d][j].id => i = j
        /\ \A i \in DOMAIN toolLog[d] : toolLog[d][i].id \in IssuedIds(d)
        /\ response[d].code = 200 =>
              \A id \in IssuedIds(d) :
                  Cardinality({i \in DOMAIN toolLog[d] : toolLog[d][i].id = id}) = 1

\* Everything a request thread holds.
Local(d) ==
    <<pc[d], request[d], email[d], messages[d], assistant_message[d], tool_index[d],
      tool_call[d], result[d], tool_results[d], response[d], engineLog[d], toolLog[d]>>

\* The conversation a delivery's own request and own engine response give.
OwnConversation(d) ==
    IF engineLog[d] = <<>> THEN <<>>
    ELSE LET seed == <<SystemMessage, UserMessage(ParseBody(request[d].body))>>
             calls == assistant_message[d].tool_calls
             last == calls[Len(calls)]
         IN IF Len(engineLog[d]) < 2 THEN seed
            ELSE seed \o
                   <<assistant_message[d],
                     ToolMessage(last.id,
                                 execute_mcp_tool(last.name, JsonLoads(last.arguments)).value)>>

\* Whether all a delivery holds comes from its own request and engine calls.
OwnData(d) ==
    /\ messages[d] = OwnConversation(d)
    /\ \A k \in DOMAIN engineLog[d] : IsPrefix(engineLog[d][k].messages, messages[d])
    /\ (engineLog[d] # <<>> /\ engineLog[d][1].status = "returned") =>
          /\ assistant_message[d].content[1] = engineLog[d][1].content
          /\ [i \in DOMAIN assistant_message[d].tool_calls |->
                 assistant_message[d].tool_calls[i].id] = engineLog[d][1].call_ids
    /\ response[d].body.result.summary # Absent =>
          /\ response[d].body.result.email_id = ParseBody(request[d].body).email_id
          /\ response[d].body.result.summary = LastEngineCall(d).content

\* C15: under every interleaving of two deliveries each conversation and each
\* result is built from the delivery's own request and engine responses, a
\* step of one thread changes nothing the other holds, and MCP_TOOLS is never
\* written.
DeliveriesIsolated ==
    /\ [](mcp_tools = MCP_TOOLS /\ \A d \in Deliveries : OwnData(d))
    /\ [][ /\ mcp_tools' = mcp_tools
           /\ \A d, e \in Deliveries :
                 (Local(d)' # Local(d) /\ Local(e)' # Local(e)) => d = e ]_vars

\* C15 witness: both deliveries have their 200 and hold different
\* conversations of four messages.
DeliveriesIsolatedWitness ==
    /\ \A d \in Deliveries :
          /\ Len(messages[d]) = 4
          /\ response[d].code = 200
    /\ messages[1][3] # messages[2][3]
    /\ response[1].body.result.email_id # response[2].body.result.email_id

\* Whether a response is 200 with status and result, or 401 or 500 with a
\* flat error object.
ValidResponse(r) ==
    \/ /\ r.code = 200
       /\ r.body.error = Absent
       /\ r.body.status # Absent
       /\ r.body.result # NoResult
    \/ /\ r.code \in {401, 500}
       /\ r.body.error # Absent
       /\ r.body.status = Absent
       /\ r.body.result = NoResult

\* C16: every delivery gets a response, one of the three kinds, and gets it
\* once: nothing is returned before the thread ends, and a response returned
\* is never replaced.
EveryDeliveryAnswered ==
    /\ [](\A d \in Deliveries :
            IF pc[d] = "responded" THEN ValidResponse(response[d])
            ELSE response[d] = NoResponse)
    /\ [][\A d \in Deliveries :
            response[d] # NoResponse => response'[d] = response[d]]_vars
    /\ \A d \in Deliveries : (pc[d] # "idle") ~> (pc[d] = "responded")

\* C16 witness: a request whose body cannot be read has its 500.
EveryDeliveryAnsweredWitness ==
    \E d \in Deliveries :
        /\ request[d].client_state = SECRET
        /\ request[d].body = NoJsonBody
        /\ pc[d] = "responded"
        /\ response[d].code = 500

\* Whether the delivery's last engine call has not ended yet.
EngineInFlight(d) ==
    engineLog[d] # <<>> /\ LastEngineCall(d).status = "pending"

\* C17: an engine call is issued only when the one before it has returned
\* and every tool call of its response has been executed, and no tool is
\* executed while an engine call is in flight.
EngineCallsSeparatedByToolPhase ==
    /\ [](\A d \in Deliveries :
            /\ \A i \in DOMAIN engineLog[d] :
                  engineLog[d][i].status = "pending" => i = Len(engineLog[d])
            /\ Len(engineLog[d]) >= 2 =>
                  /\ engineLog[d][1].status = "returned"
                  /\ [i \in DOMAIN toolLog[d] |-> toolLog[d][i].id] = engineLog[d][1].call_ids
                  /\ \A i \in DOMAIN toolLog[d] : ~toolLog[d][i].raised)
    /\ [][\A d \in Deliveries :
            EngineInFlight(d) =>
                /\ toolLog'[d] = toolLog[d]
                /\ Len(engineLog'[d]) = Len(engineLog[d])]_vars

\* C17 witness: the second engine call is in flight after two tool calls.
EngineCallsSeparatedWitness ==
    \E d \in Deliveries :
        /\ Len(engineLog[d]) = 2
        /\ EngineInFlight(d)
        /\ Len(toolLog[d]) = 2

\* C18: after a turn of n >= 1 tool calls the conversation grows by the
\* assistant message and one tool message, which carries the id and the
\* result of the n-th call; the results of the calls before it are in
\* tool_results and in no message.
OnlyLastResultAppended ==
    \A d \in Deliveries :
        Len(engineLog[d]) >= 2 =>
            LET msgs == engineLog[d][2].messages
                calls == assistant_message[d].tool_calls
                n == Len(calls)
            IN /\ n >= 1
               /\ messages[d] = msgs
               /\ Len(msgs) = 4
               /\ msgs[3] = assistant_message[d]
               /\ msgs[4] = ToolMessage(calls[n].id,
                               execute_mcp_tool(calls[n].name, JsonLoads(calls[n].arguments)).value)
               /\ Len(tool_results[d]) = n
               /\ \A i \in 1..n : tool_results[d][i].tool_call_id = calls[i].id
               /\ \A i \in 1..(n - 1) :
                     \A k \in DOMAIN msgs : msgs[k].tool_call_id # calls[i].id

\* C18 witness: the turn had two calls with different outputs, and the second
\* engine call has been issued.
OnlyLastResultWitness ==
    \E d \in Deliveries :
        /\ Len(engineLog[d]) >= 2
        /\ Len(tool_results[d]) = 2
        /\ tool_results[d][1].output # tool_results[d][2].output

TopLevelStatusProcessed ==
    \A d \in Deliveries :
        response[d].code = 200 =>
            /\ response[d].body.status = "processed"
            /\ toolLog[d] = <<>> => response[d].body.result = NoActionResult

\* C20 witness: a delivery without tool execution has its 200.
TopLevelStatusWitness ==
    \E d \in Deliveries :
        /\ response[d].code = 200
        /\ toolLog[d] = <<>>

====
